---- MODULE Spec2Model ----
(***************************************************************************)
(* Behaviour-tree engine of src/Player.js: Enumerator, Action, Sequence,   *)
(* Selector, Decorator and the stock decorators not / delay / until.       *)
(* One root tick (one turn) is one step of the model.                      *)
(***************************************************************************)
EXTENDS Integers, Sequences, FiniteSets, TLC

\* Largest number of children of the flat composites that are explored.
MaxChildren == 3
\* Number of its latest reaches that are remembered for each until.
HistLen == 3
\* Cap on the count of root ticks that pass without reaching a delay.
MaxMissed == 2
\* Longest child list of the Enumerator that is exercised on its own.
MaxNodes == 10
\* warrior.maxHealth(); warrior.health() ranges over 0 .. MaxHealth.
MaxHealth == 2

----------------------------------------------------------------------------
\* Status (src/Player.js:2-6) and the other values a tick can produce.

Success == "Success"
Failure == "Failure"
Running == "Running"
Status == {Success, Failure, Running}

\* JavaScript's undefined: a function that ends without a return statement,
\* a field that was never assigned.
Undefined == "undefined"
\* JavaScript's null, assigned to _storedResult on release.
Null == "null"
\* A thrown TypeError (calling .tick on undefined); it unwinds every caller.
TypeError == "TypeError"
\* A node that has not been ticked yet has no recorded result.
NotTicked == "NotTicked"

\* this.enumerator of a composite that has never been ticked.
NoEnumerator == -1

\* if (self._storedResult): the three Status strings are truthy,
\* undefined and null are falsy.
Truthy(v) == v \in Status

----------------------------------------------------------------------------
\* Enumerator (src/Player.js:11-56). nodes is the child list, currentIndex
\* the zero-based index; sequences are one-based, hence the +1.

NoNode == 0

current(nodes, currentIndex) ==
  IF currentIndex + 1 \in DOMAIN nodes THEN nodes[currentIndex + 1] ELSE NoNode

\* this.current is a method, so this.current !== undefined always holds.
isStartedCallsCurrent(nodes, currentIndex) ==
  current(nodes, currentIndex) # NoNode
isStarted(nodes, currentIndex) == TRUE

hasNextOffByOne(nodes, currentIndex) == currentIndex < Len(nodes)
hasNext(nodes, currentIndex) == currentIndex < Len(nodes) - 1

reset == 0

nextPastEnd(nodes, currentIndex) ==
  [moved |-> TRUE, currentIndex |-> currentIndex + 1]
next(nodes, currentIndex) ==
  IF hasNext(nodes, currentIndex)
  THEN [moved |-> TRUE, currentIndex |-> currentIndex + 1]
  ELSE [moved |-> FALSE, currentIndex |-> currentIndex]

\* [Symbol.iterator]().next(): the current node, then a step, while hasNext;
\* done otherwise, so the last node is never yielded.
iteratorNext(nodes, currentIndex) ==
  IF hasNext(nodes, currentIndex)
  THEN [done |-> FALSE, value |-> current(nodes, currentIndex),
        currentIndex |-> next(nodes, currentIndex).currentIndex]
  ELSE [done |-> TRUE, value |-> NoNode, currentIndex |-> currentIndex]

----------------------------------------------------------------------------
\* Node constructors. A tree is a sequence of nodes, children are positions
\* in that sequence, the root is position 1.

Action == [kind |-> "Action", keepState |-> FALSE, children |-> <<>>]
Sequence(keepState, children) ==
  [kind |-> "Sequence", keepState |-> keepState, children |-> children]
Selector(keepState, children) ==
  [kind |-> "Selector", keepState |-> keepState, children |-> children]
\* new Decorator(name, hooks).bind(node); node is <<child>>.
Decorator(name, node) == [kind |-> name, keepState |-> FALSE, children |-> node]

\* The Actions of the warrior: a condition returns Success or Failure, a
\* command acts on the warrior and returns Success.
Condition == [kind |-> "Condition", keepState |-> FALSE, children |-> <<>>]
Command == [kind |-> "Command", keepState |-> FALSE, children |-> <<>>]

\* checkForDamage(): the Action that compares warrior.health() with
\* oldStats.health.
checkForDamage ==
  [kind |-> "checkForDamage", keepState |-> FALSE, children |-> <<>>]

Root == 1

\* A composite of kind k with n Action children.
Flat(k, keepState, n) ==
  <<[kind |-> k, keepState |-> keepState, children |-> [i \in 1..n |-> i + 1]]>>
  \o [i \in 1..n |-> Action]

FlatTrees ==
  {Flat(k, ks, n) : k \in {"Sequence", "Selector"}, ks \in BOOLEAN,
                    n \in 1..MaxChildren}

\* Each stock decorator around one Action.
DecoratedAction(name) == <<Decorator(name, <<2>>), Action>>

\* delay around a Selector that can run out of children.
DelayedSelector == <<Decorator("delay", <<2>>), Selector(FALSE, <<3, 4>>),
                     Action, Action>>

\* A Sequence whose first child is a Selector of two Actions.
SequenceOfSelector(keepState) ==
  <<Sequence(keepState, <<2, 3>>), Selector(FALSE, <<4, 5>>), Action,
    Action, Action>>

\* A keepState Selector whose second child is a keepState Sequence.
SelectorOfSequence ==
  <<Selector(TRUE, <<2, 3>>), Action, Sequence(TRUE, <<4, 5>>), Action, Action>>

\* A keepState Sequence over not, delay and a plain Action.
NotDelaySequence ==
  <<Sequence(TRUE, <<2, 3, 4>>), Decorator("not", <<5>>),
    Decorator("delay", <<6>>), Action, Action, Action>>

\* A keepState Sequence of a condition and an until, as healIfLow.
HealShape ==
  <<Sequence(TRUE, <<2, 3>>), Action, Decorator("until", <<4>>), Action>>

\* A Sequence without keepState of a condition and a delay: the delay is
\* not reached on the turns where the condition fails.
DelayAfterCondition ==
  <<Sequence(FALSE, <<2, 3>>), Action, Decorator("delay", <<4>>), Action>>

\* A Sequence whose second child is a Selector that can run out of children.
SequenceThenSelector(keepState) ==
  <<Sequence(keepState, <<2, 3>>), Action, Selector(FALSE, <<4>>), Action>>

\* turnForCaptive(): isCaptiveBehind (a Selector of three conditions), then
\* trurnAround.
turnForCaptive ==
  <<Sequence(FALSE, <<2, 6>>), Selector(FALSE, <<3, 4, 5>>), Condition,
    Condition, Condition, Command>>

\* shootIfBadGuy(): two negated conditions, a condition, delay(shoot), a
\* condition, walk, under a keepState Sequence.
shootIfBadGuy ==
  <<Sequence(TRUE, <<2, 4, 6, 7, 9, 10>>), Decorator("not", <<3>>), Condition,
    Decorator("not", <<5>>), Condition, Condition,
    Decorator("delay", <<8>>), Command, Condition, Command>>

Trees ==
  FlatTrees
  \cup {DecoratedAction(name) : name \in {"not", "delay", "until"}}
  \cup {DelayedSelector, SelectorOfSequence, NotDelaySequence, HealShape,
        DelayAfterCondition}
  \cup {SequenceOfSelector(ks) : ks \in BOOLEAN}
  \cup {SequenceThenSelector(ks) : ks \in BOOLEAN}
  \cup {turnForCaptive, shootIfBadGuy}

\* A Sequence that starts with checkForDamage, as
\* retreatIfTakingTooMuchDamage.
RetreatShape ==
  <<Sequence(FALSE, <<2, 3, 4>>), checkForDamage, Action, Action>>

\* A keepState Selector over a Sequence that starts with checkForDamage and
\* a last Action.
SelectorOverRetreat ==
  <<Selector(TRUE, <<2, 3>>), Sequence(FALSE, <<4, 5>>), Action,
    checkForDamage, Action>>

PlayerTrees == {RetreatShape, SelectorOverRetreat}

\* Malformed trees: a composite ticked with no children, a decorator ticked
\* before bind.
EmptyComposite(k) == [kind |-> k, keepState |-> FALSE, children |-> <<>>]
Unbound(name) == Decorator(name, <<>>)
MalformedNodes ==
  {EmptyComposite(k) : k \in {"Sequence", "Selector"}}
  \cup {Unbound(name) : name \in {"not", "delay", "until"}}

\* A Selector that reaches an unbound decorator on the turns where the
\* Action succeeds and an empty Sequence on the turns where it fails.
TwoFaults ==
  <<Selector(FALSE, <<2, 3>>), Sequence(FALSE, <<4, 5>>),
    EmptyComposite("Sequence"), Action, Unbound("until")>>

MalformedTrees ==
  {<<m>> : m \in MalformedNodes}
  \cup {<<Decorator(name, <<2>>), m>> :
          name \in {"not", "delay", "until"}, m \in MalformedNodes}
  \cup {<<[kind |-> k, keepState |-> ks, children |-> <<2, 3>>], Action, m>> :
          k \in {"Sequence", "Selector"}, ks \in BOOLEAN, m \in MalformedNodes}
  \cup {<<[kind |-> k, keepState |-> ks, children |-> <<2, 3, 4>>],
           Action, Action, m>> :
          k \in {"Sequence", "Selector"}, ks \in BOOLEAN, m \in MalformedNodes}
  \cup {TwoFaults}

----------------------------------------------------------------------------
VARIABLES
  tree,          \* the assembled tree, fixed after construction
  enumerator,    \* composite -> currentIndex of its Enumerator, or NoEnumerator
  storedResult,  \* decorator -> self._storedResult
  done,          \* decorator -> self.done
  should_skip,   \* decorator -> self.should_skip
  trace,         \* nodes ticked by the latest root tick, in call order
  result,        \* node -> what its most recent tick returned
  kids,          \* node -> the children its most recent tick ticked, in order
  reaches,       \* until -> its latest reaches, oldest first: the value of
                 \* pred, self.done on entry, the child's status, the
                 \* status reported
  prevResult,    \* composite or decorator -> what the tick before its most
                 \* recent tick returned
  prevLast,      \* composite or decorator -> the last child ticked by that
                 \* earlier tick
  hooks,         \* the steps of Decorator.tick made by the latest root tick,
                 \* in order: before, node.tick, after
  missed,        \* delay -> root ticks since its latest reach (capped)
  missedBefore,  \* delay -> root ticks that passed between its two latest
                 \* reaches (capped)
  childRunning,  \* delay -> its child has returned Running at some reach
  call,          \* the latest direct call of an Enumerator method: its name,
                 \* currentIndex before it, what it returned
  health,        \* warrior.health()
  stats,         \* Player.stats: null or the health saved by saveStats
  seen           \* the latest playTurn: oldStats.health handed to the tick,
                 \* warrior.health() during the tick and at the end of the
                 \* turn, and at the end of the turn before

vars == <<tree, enumerator, storedResult, done, should_skip, trace, result,
          kids, reaches, prevResult, prevLast, hooks, missed, missedBefore,
          childRunning, call, health, stats, seen>>

Nodes == DOMAIN tree
Kind(n) == tree[n].kind
Children(n) == tree[n].children
IsComposite(n) == Kind(n) \in {"Sequence", "Selector"}
IsDecorator(n) == Kind(n) \in {"not", "delay", "until"}
Actions == {n \in Nodes : Kind(n) = "Action"}
Conditions == {n \in Nodes : Kind(n) = "Condition"}
\* What the functions of the Actions and conditions can return in one turn.
ActionResults ==
  {[n \in Actions \cup Conditions |-> IF n \in Actions THEN a[n] ELSE c[n]] :
     a \in [Actions -> Status], c \in [Conditions -> {Success, Failure}]}
Untils == {n \in Nodes : Kind(n) = "until"}

----------------------------------------------------------------------------
\* The mutable part of the tree, threaded through one root tick.

Store ==
  [enumerator |-> enumerator, storedResult |-> storedResult, done |-> done,
   should_skip |-> should_skip, trace |-> <<>>, result |-> result,
   kids |-> kids, reaches |-> reaches, prevResult |-> prevResult,
   prevLast |-> prevLast, hooks |-> <<>>, childRunning |-> childRunning]

Last(s) == IF s = <<>> THEN NoNode ELSE s[Len(s)]

\* A call of n.tick: n enters the trace and starts with no child ticked; what
\* the previous tick of a composite or decorator did is kept for comparison.
Enter(n, st) ==
  IF tree[n].kind \in {"Action", "Condition", "Command", "checkForDamage"}
  THEN [st EXCEPT !.trace = Append(@, n)]
  ELSE [st EXCEPT !.trace = Append(@, n), !.kids[n] = <<>>,
                  !.prevResult[n] = st.result[n],
                  !.prevLast[n] = Last(st.kids[n])]

\* n.tick returns (or throws) status.
Return(n, status, st) ==
  [status |-> status, st |-> [st EXCEPT !.result[n] = status]]

\* Sequence.init / Selector.init run when there is no enumerator yet or
\* keepState is false.
NeedsInitAlways(currentIndex, keepState) == TRUE
NeedsInitNever(currentIndex, keepState) == currentIndex = NoEnumerator
NeedsInit(currentIndex, keepState) ==
  currentIndex = NoEnumerator \/ ~keepState

\* What Sequence.tick does with a child's status: the index it leaves and
\* whether it returns.
SequenceStepNoFinalReset(nodes, currentIndex, status) ==
  IF status # Success
  THEN [return |-> TRUE, status |-> status,
        currentIndex |-> IF status = Failure THEN reset ELSE currentIndex]
  ELSE IF next(nodes, currentIndex).moved
       THEN [return |-> FALSE, status |-> status,
             currentIndex |-> next(nodes, currentIndex).currentIndex]
       ELSE [return |-> TRUE, status |-> status, currentIndex |-> currentIndex]
SequenceStepNoFailureReset(nodes, currentIndex, status) ==
  IF status # Success
  THEN [return |-> TRUE, status |-> status, currentIndex |-> currentIndex]
  ELSE IF next(nodes, currentIndex).moved
       THEN [return |-> FALSE, status |-> status,
             currentIndex |-> next(nodes, currentIndex).currentIndex]
       ELSE [return |-> TRUE, status |-> status, currentIndex |-> reset]
SequenceStep(nodes, currentIndex, status) ==
  IF status # Success
  THEN [return |-> TRUE, status |-> status,
        currentIndex |-> IF status = Failure THEN reset ELSE currentIndex]
  ELSE IF next(nodes, currentIndex).moved
       THEN [return |-> FALSE, status |-> status,
             currentIndex |-> next(nodes, currentIndex).currentIndex]
       ELSE [return |-> TRUE, status |-> status, currentIndex |-> reset]

\* What Selector.tick does with a child's status. A status that matches no
\* case of the switch (undefined) falls out of the switch like Failure; when
\* the loop ends the function ends without a return statement.
SelectorStepNoShortCircuit(nodes, currentIndex, status) ==
  IF status = Running
  THEN [return |-> TRUE, status |-> status, currentIndex |-> currentIndex]
  ELSE IF next(nodes, currentIndex).moved
       THEN [return |-> FALSE, status |-> status,
             currentIndex |-> next(nodes, currentIndex).currentIndex]
       ELSE [return |-> TRUE, status |-> status, currentIndex |-> reset]
SelectorStep(nodes, currentIndex, status) ==
  IF status = Running
  THEN [return |-> TRUE, status |-> status, currentIndex |-> currentIndex]
  ELSE IF status = Success
  THEN [return |-> TRUE, status |-> status, currentIndex |-> reset]
  ELSE IF next(nodes, currentIndex).moved
       THEN [return |-> FALSE, status |-> status,
             currentIndex |-> next(nodes, currentIndex).currentIndex]
       ELSE [return |-> TRUE, status |-> Undefined, currentIndex |-> reset]

\* not: the after hook.
notAfterIdentity(ogResult) == ogResult
notAfter(ogResult) ==
  IF ogResult = Success THEN Failure
  ELSE IF ogResult = Failure THEN Success
  ELSE ogResult

\* delay: the after hook, on self._storedResult and self.should_skip.
delayAfterPassThrough(ogResult, stored) ==
  IF Truthy(stored)
  THEN [status |-> ogResult, storedResult |-> Null, should_skip |-> FALSE]
  ELSE [status |-> Running, storedResult |-> ogResult, should_skip |-> TRUE]
delayAfterNeverReleases(ogResult, stored) ==
  [status |-> Running, storedResult |-> ogResult, should_skip |-> TRUE]
delayAfter(ogResult, stored) ==
  IF Truthy(stored)
  THEN [status |-> stored, storedResult |-> Null, should_skip |-> FALSE]
  ELSE [status |-> Running, storedResult |-> ogResult, should_skip |-> TRUE]

\* until: the before hook sets done and should_skip when pred holds.
untilBefore(pred, isDone, skip) ==
  IF pred THEN [done |-> TRUE, should_skip |-> TRUE]
  ELSE [done |-> isDone, should_skip |-> skip]

\* until: the after hook.
untilAfterIgnoreFailure(ogResult, isDone, skip) ==
  IF isDone
  THEN [status |-> Success, done |-> FALSE, should_skip |-> FALSE]
  ELSE [status |-> Running, done |-> isDone, should_skip |-> skip]
untilAfterKeepDone(ogResult, isDone, skip) ==
  IF ogResult # Failure
  THEN IF isDone
       THEN [status |-> Success, done |-> isDone, should_skip |-> FALSE]
       ELSE [status |-> Running, done |-> isDone, should_skip |-> skip]
  ELSE [status |-> ogResult, done |-> isDone, should_skip |-> skip]
untilAfter(ogResult, isDone, skip) ==
  IF ogResult # Failure
  THEN IF isDone
       THEN [status |-> Success, done |-> FALSE, should_skip |-> FALSE]
       ELSE [status |-> Running, done |-> isDone, should_skip |-> skip]
  ELSE [status |-> ogResult, done |-> isDone, should_skip |-> skip]

\* Player: this.stats is null until the first saveStats.
NoStats == -1
initStats(maxHealth) == maxHealth
saveStats(warriorHealth) == warriorHealth
\* const stats = this.getStats() || this.initStats(warrior)
turnStatsAlwaysInit(playerStats, maxHealth) == initStats(maxHealth)
turnStats(playerStats, maxHealth) ==
  IF playerStats # NoStats THEN playerStats ELSE initStats(maxHealth)

\* checkForDamage: warrior.health() < oldStats.health.
checkForDamageAction(warriorHealth, oldStatsHealth) ==
  IF warriorHealth < oldStatsHealth THEN Success ELSE Failure

----------------------------------------------------------------------------
\* tick. env.action gives what each Action's function returns this turn,
\* env.pred what each until's predicate returns this turn.

RECURSIVE TickNode(_, _, _)
RECURSIVE CompositeLoop(_, _, _)

\* The do { ... } while (this.enumerator.next()) loop of Sequence.tick and
\* Selector.tick, from the current index.
CompositeLoop(n, st, env) ==
  LET nodes == Children(n)
      child == current(nodes, st.enumerator[n])
  IN  IF child = NoNode
      THEN [status |-> TypeError, st |-> st]
      ELSE
        LET r    == TickNode(child, [st EXCEPT !.kids[n] = Append(@, child)], env)
            step == IF Kind(n) = "Sequence"
                    THEN SequenceStep(nodes, r.st.enumerator[n], r.status)
                    ELSE SelectorStep(nodes, r.st.enumerator[n], r.status)
            st2  == [r.st EXCEPT !.enumerator[n] = step.currentIndex]
        IN  IF r.status = TypeError THEN [status |-> TypeError, st |-> r.st]
            ELSE IF step.return THEN [status |-> step.status, st |-> st2]
            ELSE CompositeLoop(n, st2, env)

\* Sequence.tick and Selector.tick.
CompositeTick(n, st, env) ==
  LET st1 == IF NeedsInit(st.enumerator[n], tree[n].keepState)
             THEN [st EXCEPT !.enumerator[n] = 0]
             ELSE st
  IN  IF ~isStarted(Children(n), st1.enumerator[n])
      THEN [status |-> Running, st |-> st1]
      ELSE CompositeLoop(n, st1, env)

\* Append a reach to the remembered ones, dropping the oldest beyond HistLen.
Remember(log, reach) ==
  IF Len(log) < HistLen THEN Append(log, reach)
  ELSE Append(SubSeq(log, 2, Len(log)), reach)

\* One step of Decorator.tick enters the record of the root tick.
Hook(name, n, st) ==
  [st EXCEPT !.hooks = Append(@, [hook |-> name, node |-> n])]

\* Decorator.tick: before, this.node.tick, after.
DecoratorTick(n, st, env) ==
  LET b   == untilBefore(env.pred[n], st.done[n], st.should_skip[n])
      st0 == Hook("before", n, st)
      st1 == IF Kind(n) = "until"
             THEN [st0 EXCEPT !.done[n] = b.done,
                              !.should_skip[n] = b.should_skip]
             ELSE st0
  IN  IF Children(n) = <<>>
      THEN [status |-> TypeError, st |-> st1]
      ELSE
        LET child == Children(n)[1]
            r     == TickNode(child,
                              [Hook("node.tick", n, st1)
                                 EXCEPT !.kids[n] = Append(@, child)], env)
            og    == r.status
            st2   == Hook("after", n, r.st)
            d     == delayAfter(og, st2.storedResult[n])
            u     == untilAfter(og, st2.done[n], st2.should_skip[n])
        IN  IF og = TypeError THEN r
            ELSE IF Kind(n) = "not"
            THEN [status |-> notAfter(og), st |-> st2]
            ELSE IF Kind(n) = "delay"
            THEN [status |-> d.status,
                  st |-> [st2 EXCEPT !.storedResult[n] = d.storedResult,
                                     !.should_skip[n] = d.should_skip,
                                     !.childRunning[n] = @ \/ og = Running]]
            ELSE [status |-> u.status,
                  st |-> [st2 EXCEPT !.done[n] = u.done,
                                      !.should_skip[n] = u.should_skip,
                                      !.reaches[n] =
                                         Remember(@, [pred |-> env.pred[n],
                                                      doneBefore |-> st.done[n],
                                                      child |-> og,
                                                      report |-> u.status])]]

TickNodeSkips(n, st, env) ==
  LET st1 == Enter(n, st)
      r   == IF Kind(n) \in {"Action", "Condition"}
             THEN [status |-> env.action[n], st |-> st1]
             ELSE IF Kind(n) = "Command"
             THEN [status |-> Success, st |-> st1]
             ELSE IF Kind(n) = "checkForDamage"
             THEN [status |-> checkForDamageAction(env.state.warrior,
                                                   env.state.oldStats),
                   st |-> st1]
             ELSE IF IsComposite(n) THEN CompositeTick(n, st1, env)
             ELSE IF st.should_skip[n]
             THEN [status |-> Running,
                   st |-> [st1 EXCEPT !.should_skip[n] = FALSE]]
             ELSE DecoratorTick(n, st1, env)
  IN  Return(n, r.status, r.st)
TickNode(n, st, env) ==
  LET st1 == Enter(n, st)
      r   == IF Kind(n) \in {"Action", "Condition"}
             THEN [status |-> env.action[n], st |-> st1]
             ELSE IF Kind(n) = "Command"
             THEN [status |-> Success, st |-> st1]
             ELSE IF Kind(n) = "checkForDamage"
             THEN [status |-> checkForDamageAction(env.state.warrior,
                                                   env.state.oldStats),
                   st |-> st1]
             ELSE IF IsComposite(n) THEN CompositeTick(n, st1, env)
             ELSE DecoratorTick(n, st1, env)
  IN  Return(n, r.status, r.st)

----------------------------------------------------------------------------
\* The state of a tree right after its assembly.
NoCall == [op |-> "new", before |-> 0, returned |-> FALSE, value |-> NoNode]
NoTurn == [played |-> FALSE, oldStats |-> NoStats, tickHealth |-> NoStats,
           endHealth |-> NoStats, prevEnd |-> NoStats]
Unticked ==
  /\ storedResult = [n \in Nodes |-> Undefined]
  /\ done = [n \in Nodes |-> FALSE]
  /\ should_skip = [n \in Nodes |-> FALSE]
  /\ trace = <<>>
  /\ result = [n \in Nodes |-> NotTicked]
  /\ kids = [n \in Nodes |-> <<>>]
  /\ reaches = [n \in Nodes |-> <<>>]
  /\ prevResult = [n \in Nodes |-> NotTicked]
  /\ prevLast = [n \in Nodes |-> NoNode]
  /\ hooks = <<>>
  /\ missed = [n \in Nodes |-> 0]
  /\ missedBefore = [n \in Nodes |-> 0]
  /\ childRunning = [n \in Nodes |-> FALSE]
  /\ call = NoCall
  /\ health = MaxHealth
  /\ stats = NoStats
  /\ seen = NoTurn

Assembled ==
  /\ enumerator = [n \in Nodes |-> NoEnumerator]
  /\ Unticked

Init ==
  /\ tree \in Trees
  /\ Assembled

\* What the Actions and the predicates of the untils return during one turn.
\* state is the turn state playTurn builds: the warrior (its health) and
\* oldStats.
Env(action, pred) ==
  [action |-> action,
   pred |-> [n \in Nodes |-> IF n \in Untils THEN pred[n] ELSE FALSE],
   state |-> [oldStats |-> turnStats(stats, MaxHealth), warrior |-> health]]

Min(a, b) == IF a < b THEN a ELSE b

\* this.behavior.tick(state): the root tick and what it leaves in the tree.
RootTick(env) ==
    LET r   == TickNode(Root, Store, env)
        reached(n) == \E i \in DOMAIN r.st.trace : r.st.trace[i] = n
    IN  /\ enumerator' = r.st.enumerator
        /\ storedResult' = r.st.storedResult
        /\ done' = r.st.done
        /\ should_skip' = r.st.should_skip
        /\ trace' = r.st.trace
        /\ result' = r.st.result
        /\ kids' = r.st.kids
        /\ reaches' = r.st.reaches
        /\ prevResult' = r.st.prevResult
        /\ prevLast' = r.st.prevLast
        /\ hooks' = r.st.hooks
        /\ childRunning' = r.st.childRunning
        /\ missed' = [n \in Nodes |->
                        IF Kind(n) # "delay" \/ reached(n) THEN 0
                        ELSE Min(missed[n] + 1, MaxMissed)]
        /\ missedBefore' = [n \in Nodes |->
                              IF Kind(n) = "delay" /\ reached(n)
                              THEN missed[n] ELSE missedBefore[n]]
        /\ UNCHANGED <<tree, call>>

\* Player.playTurn: the turn state is built from this.stats (initStats
\* assigns it while it is null), the root is ticked once, then saveStats
\* keeps the health the warrior reports at the end of the turn; a tick that
\* throws leaves playTurn before saveStats.
Turn(env, healthAtEnd) ==
  /\ RootTick(env)
  /\ health' = healthAtEnd
  /\ stats' = IF result'[Root] = TypeError THEN env.state.oldStats
              ELSE saveStats(healthAtEnd)
  /\ seen' = [played |-> TRUE,
              oldStats |-> env.state.oldStats,
              tickHealth |-> health,
              endHealth |-> healthAtEnd,
              prevEnd |-> seen.endHealth]

\* One turn of a warrior whose health does not change.
Tick ==
  \E action \in ActionResults, pred \in [Untils -> BOOLEAN] :
    Turn(Env(action, pred), health)

Next == Tick

Spec == Init /\ [][Next]_vars

\* The same driver over the malformed trees.
InitMalformed ==
  /\ tree \in MalformedTrees
  /\ Assembled

SpecMalformed == InitMalformed /\ [][Next]_vars

\* The Enumerator on its own: new Enumerator(nodes) over a non-empty child
\* list, then any sequence of next(), reset() and iterator steps.
InitEnumerator ==
  /\ tree \in {Flat("Sequence", FALSE, n) : n \in 1..MaxNodes}
  /\ enumerator = [n \in Nodes |-> IF n = Root THEN 0 ELSE NoEnumerator]
  /\ Unticked

EnumeratorNext ==
  LET r == next(Children(Root), enumerator[Root])
  IN  /\ enumerator' = [enumerator EXCEPT ![Root] = r.currentIndex]
      /\ call' = [op |-> "next", before |-> enumerator[Root],
                  returned |-> r.moved, value |-> NoNode]
      /\ UNCHANGED <<tree, storedResult, done, should_skip, trace, result,
                     kids, reaches, prevResult, prevLast, hooks, missed,
                     missedBefore, childRunning, health, stats, seen>>

EnumeratorReset ==
  /\ enumerator' = [enumerator EXCEPT ![Root] = reset]
  /\ call' = [op |-> "reset", before |-> enumerator[Root], returned |-> FALSE,
              value |-> NoNode]
  /\ UNCHANGED <<tree, storedResult, done, should_skip, trace, result,
                 kids, reaches, prevResult, prevLast, hooks, missed,
                 missedBefore, childRunning, health, stats, seen>>

\* One step of the iterator; returned is the negation of done.
EnumeratorIterate ==
  LET r == iteratorNext(Children(Root), enumerator[Root])
  IN  /\ enumerator' = [enumerator EXCEPT ![Root] = r.currentIndex]
      /\ call' = [op |-> "iterator.next", before |-> enumerator[Root],
                  returned |-> ~r.done, value |-> r.value]
      /\ UNCHANGED <<tree, storedResult, done, should_skip, trace, result,
                     kids, reaches, prevResult, prevLast, hooks, missed,
                     missedBefore, childRunning, health, stats, seen>>

NextEnumerator == EnumeratorNext \/ EnumeratorReset \/ EnumeratorIterate

SpecEnumerator == InitEnumerator /\ [][NextEnumerator]_vars

\* One turn of a warrior that reports any health at the end of the turn.
PlayTurn ==
  \E action \in ActionResults, pred \in [Untils -> BOOLEAN],
     healthAtEnd \in 0..MaxHealth :
    Turn(Env(action, pred), healthAtEnd)

\* Between two playTurn calls the game changes the warrior's health.
WorldTurn ==
  /\ health' \in 0..MaxHealth
  /\ UNCHANGED <<tree, enumerator, storedResult, done, should_skip, trace,
                 result, kids, reaches, prevResult, prevLast, hooks, missed,
                 missedBefore, childRunning, call, stats, seen>>

InitPlayer ==
  /\ tree \in PlayerTrees
  /\ Assembled

NextPlayer == PlayTurn \/ WorldTurn

SpecPlayer == InitPlayer /\ [][NextPlayer]_vars

----------------------------------------------------------------------------
\* Observations used by the properties.

\* n was ticked by the latest root tick.
Ticked(n) == \E i \in DOMAIN trace : trace[i] = n
\* n has been ticked at least once.
EverTicked(n) == result[n] # NotTicked
Sequences == {n \in Nodes : Kind(n) = "Sequence"}
Selectors == {n \in Nodes : Kind(n) = "Selector"}
Composites == Sequences \cup Selectors
Delays == {n \in Nodes : Kind(n) = "delay"}
Nots == {n \in Nodes : Kind(n) = "not"}
Decorators == {n \in Nodes : IsDecorator(n)}
\* How many times the latest root tick ticked n.
TickCount(n) == Cardinality({i \in DOMAIN trace : trace[i] = n})
FirstChild(c) == Children(c)[1]
LastChild(c) == Children(c)[Len(Children(c))]
\* The children ticked by c's most recent tick are consecutive children.
Consecutive(c) ==
  \E s \in DOMAIN Children(c) :
    /\ s + Len(kids[c]) - 1 <= Len(Children(c))
    /\ kids[c] = SubSeq(Children(c), s, s + Len(kids[c]) - 1)
\* The result of the i-th child ticked by c's most recent tick.
KidResult(c, i) == result[kids[c][i]]

----------------------------------------------------------------------------
\* C1. Resumption: a keepState Sequence or Selector whose previous tick
\* returned Running (child k being the last child it ticked, the one that
\* returned Running) ticks child k first on its next tick.
C1_Resumption ==
  \A c \in Composites :
    (tree[c].keepState /\ prevResult[c] = Running)
      => /\ kids[c] # <<>>
         /\ kids[c][1] = prevLast[c]

\* A keepState Selector resumed at a child other than child 0, that child
\* being a keepState Sequence which itself resumed at a later child.
C1_Witness ==
  \E c \in Selectors, d \in Sequences :
    /\ tree[c].keepState /\ tree[d].keepState
    /\ Ticked(c) /\ Ticked(d)
    /\ prevResult[c] = Running /\ prevResult[d] = Running
    /\ kids[c][1] = d /\ d # FirstChild(c)
    /\ kids[d][1] = prevLast[d] /\ kids[d][1] # FirstChild(d)

\* C2. Non-resumption: every tick of a Sequence or Selector with
\* keepState = false ticks child 0 first.
C2_NonResumption ==
  \A c \in Composites :
    (~tree[c].keepState /\ EverTicked(c))
      => kids[c] # <<>> /\ kids[c][1] = FirstChild(c)

\* A composite without keepState whose previous tick returned Running from a
\* child k > 0 and whose latest tick started at child 0 all the same.
C2_Witness ==
  \E c \in Composites :
    /\ ~tree[c].keepState /\ Ticked(c)
    /\ prevResult[c] = Running /\ prevLast[c] # FirstChild(c)
    /\ kids[c][1] = FirstChild(c)

\* C3. Every tick of every node returns one of Success, Failure, Running.
C3_EveryTickReturnsStatus ==
  \A n \in Nodes : EverTicked(n) => result[n] \in Status

\* C4. A Sequence returns Success exactly on the tick in which its last
\* child is ticked and returns Success; the children ticked by that tick
\* are consecutive, all returned Success, and the cursor index is 0
\* afterwards. Unless the previous tick ended on a child that returned
\* undefined (which leaves the cursor where it was), the traversal began at
\* child 0 or, after a Running tick with keepState, at the child that was
\* Running.
C4_SequenceSuccess ==
  \A c \in Sequences :
    EverTicked(c) =>
      /\ (result[c] = Success)
           <=> (Last(kids[c]) = LastChild(c) /\ result[LastChild(c)] = Success)
      /\ (result[c] = Success) =>
           /\ enumerator[c] = 0
           /\ Consecutive(c)
           /\ \A i \in DOMAIN kids[c] : KidResult(c, i) = Success
           /\ \/ kids[c][1] = FirstChild(c)
              \/ /\ tree[c].keepState /\ prevResult[c] = Running
                 /\ kids[c][1] = prevLast[c]
              \/ prevResult[c] = Undefined

\* A keepState Sequence of three children that finished, over two ticks
\* joined by a Running result, a traversal in which every child succeeded.
C4_Witness ==
  \E c \in Sequences :
    /\ Len(Children(c)) = 3 /\ tree[c].keepState /\ Ticked(c)
    /\ result[c] = Success /\ enumerator[c] = 0
    /\ prevResult[c] = Running
    /\ kids[c] = SubSeq(Children(c), 2, 3)

\* C5. In a Sequence tick a child that returns Failure or Running is the last
\* child ticked and its result is the Sequence's result; after Failure the
\* cursor index is 0, after Running the cursor is on that child.
C5_SequenceShortCircuit ==
  \A c \in Sequences :
    \A i \in DOMAIN kids[c] :
      KidResult(c, i) \in {Failure, Running} =>
        /\ i = Len(kids[c])
        /\ result[c] = KidResult(c, i)
        /\ KidResult(c, i) = Failure => enumerator[c] = 0
        /\ KidResult(c, i) = Running
             => current(Children(c), enumerator[c]) = kids[c][i]

\* A Sequence with a child left unticked: its previous tick stopped on
\* Running at child 1, its latest tick resumed there and stopped on Failure.
C5_Witness ==
  \E c \in Sequences :
    /\ Len(Children(c)) >= 3 /\ Ticked(c)
    /\ prevResult[c] = Running /\ prevLast[c] = Children(c)[2]
    /\ kids[c] = <<Children(c)[2]>>
    /\ result[c] = Failure /\ enumerator[c] = 0
    /\ ~Ticked(Children(c)[3])

\* C6. In a Selector tick a child that returns Success or Running is the last
\* child ticked and its result is the Selector's result; a child that
\* returns Failure is followed by the next child. An N-child Selector that
\* starts at child 0, whose first N-1 children fail and whose Nth succeeds,
\* returns Success after N child ticks with the cursor index at 0.
C6_SelectorShortCircuit ==
  \A c \in Selectors :
    /\ Consecutive(c) \/ ~EverTicked(c)
    /\ \A i \in DOMAIN kids[c] :
         /\ KidResult(c, i) \in {Success, Running} =>
              i = Len(kids[c]) /\ result[c] = KidResult(c, i)
         /\ (KidResult(c, i) = Failure /\ kids[c][i] # LastChild(c)) =>
              i < Len(kids[c])
    /\ ( /\ EverTicked(c)
         /\ kids[c][1] = FirstChild(c)
         /\ Last(kids[c]) = LastChild(c)
         /\ result[LastChild(c)] = Success
         /\ \A i \in 1..(Len(kids[c]) - 1) : KidResult(c, i) = Failure )
       => /\ result[c] = Success
          /\ Len(kids[c]) = Len(Children(c))
          /\ enumerator[c] = 0

\* A three-child Selector whose children returned Failure, Failure, Success.
C6_Witness ==
  \E c \in Selectors :
    /\ Len(Children(c)) = 3 /\ Ticked(c)
    /\ kids[c] = Children(c)
    /\ KidResult(c, 1) = Failure /\ KidResult(c, 2) = Failure
    /\ KidResult(c, 3) = Success
    /\ result[c] = Success /\ enumerator[c] = 0

\* C7. A Selector tick in which the last child returns Failure resets the
\* cursor to 0 and returns Failure; the Selector returns Failure in no other
\* case.
C7_SelectorExhaustionFails ==
  \A c \in Selectors :
    EverTicked(c) =>
      /\ (Last(kids[c]) = LastChild(c) /\ result[LastChild(c)] = Failure)
           => (enumerator[c] = 0 /\ result[c] = Failure)
      /\ result[c] = Failure
           => (Last(kids[c]) = LastChild(c) /\ result[LastChild(c)] = Failure)

\* C8. A reach of a delay ticks its child once. With no pending result it
\* stores the child's result and reports Running; with a pending result R1
\* (the child's result at the previous reach, which reported Running) it
\* reports R1, whatever the child returned this time, and ends with no
\* pending result.
C8_DelayDefers ==
  [][\A d \in Delays :
       Ticked(d)' =>
         /\ kids'[d] = <<Children(d)[1]>>
         /\ Ticked(Children(d)[1])'
         /\ IF Truthy(storedResult[d])
            THEN /\ result[d] = Running
                 /\ storedResult[d] = result[Children(d)[1]]
                 /\ result'[d] = storedResult[d]
                 /\ ~Truthy(storedResult'[d])
            ELSE /\ result'[d] = Running
                 /\ storedResult'[d] = result'[Children(d)[1]]]_vars

\* A delay that reported Running and then, on its next reach, the Failure its
\* child had returned before, while the child returned Success this time.
C8_Witness ==
  \E d \in Delays :
    /\ Ticked(d)
    /\ prevResult[d] = Running
    /\ result[Children(d)[1]] = Success
    /\ result[d] = Failure
    /\ ~Truthy(storedResult[d])

\* C9. A reach of an until that starts with done cleared and whose child
\* does not return Failure reports Success when the predicate is true at
\* that reach and Running when it is false; three consecutive reaches that
\* start from done cleared, with the predicate false, false, true and the
\* child returning Success, report Running, Running, Success, and done is
\* cleared after a Success.
C9_UntilWaits ==
  \A u \in Untils :
    /\ \A i \in DOMAIN reaches[u] :
         (~reaches[u][i].doneBefore /\ reaches[u][i].child # Failure) =>
           reaches[u][i].report =
             IF reaches[u][i].pred THEN Success ELSE Running
    /\ ( /\ Len(reaches[u]) >= 3
         /\ ~reaches[u][Len(reaches[u]) - 2].doneBefore
         /\ \A i \in (Len(reaches[u]) - 2)..Len(reaches[u]) :
              reaches[u][i].child = Success
         /\ ~reaches[u][Len(reaches[u]) - 2].pred
         /\ ~reaches[u][Len(reaches[u]) - 1].pred
         /\ reaches[u][Len(reaches[u])].pred )
       => /\ reaches[u][Len(reaches[u]) - 2].report = Running
          /\ reaches[u][Len(reaches[u]) - 1].report = Running
          /\ reaches[u][Len(reaches[u])].report = Success
    /\ (EverTicked(u) /\ result[u] = Success) => ~done[u]

\* An until reached three times in a row with the predicate false, false,
\* true and its child returning Success: it reported Running, Running,
\* Success and done is cleared.
C9_Witness ==
  \E u \in Untils :
    /\ Ticked(u) /\ Len(reaches[u]) = 3
    /\ ~reaches[u][1].doneBefore
    /\ ~reaches[u][1].pred /\ ~reaches[u][2].pred /\ reaches[u][3].pred
    /\ \A i \in 1..3 : reaches[u][i].child = Success
    /\ reaches[u][1].report = Running /\ reaches[u][2].report = Running
    /\ reaches[u][3].report = Success
    /\ result[u] = Success /\ ~done[u]

\* C10. A reach of an until at which the child returns Failure reports
\* Failure, whatever the predicate and the done flag were.
C10_UntilAbort ==
  \A u \in Untils :
    /\ (EverTicked(u) /\ result[Children(u)[1]] = Failure)
         => result[u] = Failure
    /\ \A i \in DOMAIN reaches[u] :
         reaches[u][i].child = Failure => reaches[u][i].report = Failure

\* An until reporting Failure on a reach where the predicate was false and
\* done had been left set by an earlier reach.
C10_Witness ==
  \E u \in Untils :
    /\ Ticked(u) /\ result[Children(u)[1]] = Failure /\ result[u] = Failure
    /\ reaches[u] # <<>>
    /\ ~reaches[u][Len(reaches[u])].pred
    /\ reaches[u][Len(reaches[u])].doneBefore

\* C11. Ticking a Sequence or Selector without children, or a decorator
\* that has no child bound, ends in a fault: the tick returns no Status, and
\* the fault unwinds the root tick that reached it.
Malformed(n) == (IsComposite(n) \/ IsDecorator(n)) /\ Children(n) = <<>>
C11_MalformedFaults ==
  \A n \in Nodes :
    Malformed(n) =>
      /\ EverTicked(n) => (result[n] = TypeError /\ result[n] \notin Status)
      /\ Ticked(n) => result[Root] = TypeError

\* A tree in which an unbound decorator and an empty Sequence have both been
\* ticked, on different turns, and both ticks ended in the fault.
C11_Witness ==
  \E n \in Nodes, m \in Nodes :
    /\ Malformed(n) /\ IsDecorator(n) /\ result[n] = TypeError
    /\ Malformed(m) /\ IsComposite(m) /\ result[m] = TypeError
    /\ Ticked(m) /\ result[Root] = TypeError

\* C12. A tick of a not decorator ticks its child once and returns Failure
\* for the child's Success, Success for its Failure and Running for its
\* Running; the decorator's fields never change.
C12_Negate ==
  \A n \in Nots :
    /\ storedResult[n] = Undefined /\ ~done[n] /\ ~should_skip[n]
    /\ EverTicked(n) =>
         /\ kids[n] = <<Children(n)[1]>>
         /\ result[Children(n)[1]] = Success => result[n] = Failure
         /\ result[Children(n)[1]] = Failure => result[n] = Success
         /\ result[Children(n)[1]] = Running => result[n] = Running
    /\ Ticked(n) => TickCount(Children(n)[1]) = 1

\* A not that returned Running for a Running child and then, on its next
\* tick, Success for a child that returned Failure.
C12_Witness ==
  \E n \in Nots :
    /\ Ticked(n) /\ prevResult[n] = Running
    /\ result[Children(n)[1]] = Failure /\ result[n] = Success

\* C13. The pending result of a delay changes only in a root tick that
\* reaches the delay; a delay that holds a pending result R1 (its child's
\* result at the reach that reported Running) and is reached again after
\* root ticks that did not reach it reports R1.
C13_PendingPersists ==
  [][\A d \in Delays :
       /\ ~Ticked(d)' => storedResult'[d] = storedResult[d]
       /\ (Ticked(d)' /\ Truthy(storedResult[d]) /\ missed[d] >= 1) =>
            /\ result[d] = Running
            /\ storedResult[d] = result[Children(d)[1]]
            /\ result'[d] = storedResult[d]]_vars

\* A delay that reported Running, was then not reached by two or more root
\* ticks, and on its next reach reported the Success or Failure it held.
C13_Witness ==
  \E d \in Delays :
    /\ Ticked(d) /\ missedBefore[d] >= 2
    /\ prevResult[d] = Running
    /\ result[d] \in {Success, Failure}
    /\ ~Truthy(storedResult[d])

\* C14. Every tick of a decorator runs before, then ticks the child exactly
\* once, then runs after, whatever should_skip, the pending result and done
\* are; and a root tick from the same state with any other values of the
\* should_skip flags ticks the same nodes, returns the same results and
\* leaves the same cursors, pending results and done flags.
HooksOf(d) == LET of(h) == h.node = d IN SelectSeq(hooks, of)
C14_ChildAlwaysTicked ==
  /\ \A d \in Decorators :
       Ticked(d) =>
         /\ HooksOf(d) = <<[hook |-> "before", node |-> d],
                           [hook |-> "node.tick", node |-> d],
                           [hook |-> "after", node |-> d]>>
         /\ kids[d] = <<Children(d)[1]>>
         /\ TickCount(Children(d)[1]) = 1
         /\ \A i \in DOMAIN trace :
              trace[i] = d => (i < Len(trace) /\ trace[i + 1] = Children(d)[1])
  /\ Decorators # {} =>
       \A action \in ActionResults, pred \in [Untils -> BOOLEAN],
          skip \in [Decorators -> BOOLEAN] :
         LET other == [Store EXCEPT !.should_skip =
                         [n \in Nodes |-> IF n \in Decorators THEN skip[n]
                                          ELSE should_skip[n]]]
             r1 == TickNode(Root, Store, Env(action, pred))
             r2 == TickNode(Root, other, Env(action, pred))
         IN  /\ r1.status = r2.status
             /\ r1.st.trace = r2.st.trace
             /\ r1.st.result = r2.st.result
             /\ r1.st.enumerator = r2.st.enumerator
             /\ r1.st.storedResult = r2.st.storedResult
             /\ r1.st.done = r2.st.done

\* A delay reached with should_skip set and a result pending (it had
\* reported Running): its child was ticked all the same, once, and the
\* pending result came out.
C14_Witness ==
  \E d \in Delays :
    /\ Ticked(d) /\ prevResult[d] = Running
    /\ result[d] \in {Success, Failure} /\ ~Truthy(storedResult[d])
    /\ ~should_skip[d]
    /\ TickCount(Children(d)[1]) = 1 /\ kids[d] = <<Children(d)[1]>>

\* C15. A root tick ticks every node at most once, so a composite ticks at
\* most as many children as it has, each at most once; and the root tick
\* runs to completion: the root and every node it reached returned.
C15_OncePerTurn ==
  /\ \A n \in Nodes : TickCount(n) <= 1
  /\ \A c \in Composites :
       /\ Len(kids[c]) <= Len(Children(c))
       /\ \A i, j \in DOMAIN kids[c] : kids[c][i] = kids[c][j] => i = j
  /\ trace # <<>> => trace[1] = Root
  /\ \A n \in Nodes : Ticked(n) => result[n] \notin {NotTicked, TypeError}

\* A root tick that went through a whole nested tree of five nodes, each
\* node ticked once.
C15_Witness ==
  /\ Cardinality(Nodes) >= 5
  /\ Len(trace) = Cardinality(Nodes)
  /\ \A n \in Nodes : TickCount(n) = 1
  /\ \E c \in Composites : c # Root /\ kids[c] = Children(c)

\* C16. Over a non-empty child list the index of an Enumerator stays in
\* 0 .. len-1 after any calls of next and reset; next returns true and adds
\* one to the index exactly when the index was below len-1, else it returns
\* false and leaves the index; reset leaves the index at 0.
C16_CursorInvariant ==
  LET len == Len(Children(Root))
      currentIndex == enumerator[Root]
  IN  /\ currentIndex \in 0..(len - 1)
      /\ call.op = "next" =>
           /\ call.returned <=> call.before < len - 1
           /\ call.returned => currentIndex = call.before + 1
           /\ ~call.returned => currentIndex = call.before
      /\ call.op = "reset" => currentIndex = 0

\* next() called on the last of three or more children: it returned false
\* and the index stayed on the last child.
C16_Witness ==
  /\ Len(Children(Root)) >= 3
  /\ call.op = "next" /\ ~call.returned
  /\ call.before = Len(Children(Root)) - 1
  /\ enumerator[Root] = Len(Children(Root)) - 1

\* C17. After a tick of a Sequence or Selector that returns anything other
\* than Running the cursor index of that composite is 0, so the index is
\* non-zero between ticks only after a tick that returned Running.
C17_CursorHomeUnlessRunning ==
  \A c \in Composites :
    (EverTicked(c) /\ result[c] # Running) => enumerator[c] = 0

\* C18. An until reports Success only on a reach at which its predicate is
\* true, and a reach at which the predicate is false and the child does not
\* return Failure reports Running, whatever the earlier reaches were.
C18_UntilSuccessNeedsPred ==
  \A u \in Untils :
    \A i \in DOMAIN reaches[u] :
      /\ reaches[u][i].report = Success => reaches[u][i].pred
      /\ (~reaches[u][i].pred /\ reaches[u][i].child # Failure)
           => reaches[u][i].report = Running

\* C19. A delay whose child has never returned Running does not report
\* Running on two consecutive reaches: the reach after a Running report
\* reports the stored result and leaves nothing pending.
C19_DelayReleasesNextReach ==
  \A d \in Delays :
    (EverTicked(d) /\ ~childRunning[d] /\ prevResult[d] = Running) =>
      /\ result[d] # Running
      /\ storedResult[d] = Null

\* C20. playTurn ticks the root once with oldStats.health equal to the
\* warrior's maximum health on the first turn and, on every later turn, to
\* the warrior's health at the end of the previous playTurn; checkForDamage
\* compares against that value, and the snapshot kept after the turn is the
\* health read after the tick.
DamageChecks == {n \in Nodes : Kind(n) = "checkForDamage"}
ExpectedOldStats == IF seen.prevEnd = NoStats THEN MaxHealth ELSE seen.prevEnd
C20_OldStatsIsPreviousTurn ==
  seen.played =>
    /\ seen.oldStats = ExpectedOldStats
    /\ TickCount(Root) = 1 /\ trace[1] = Root
    /\ stats = seen.endHealth
    /\ \A n \in DamageChecks :
         Ticked(n) =>
           result[n] = IF seen.tickHealth < ExpectedOldStats
                       THEN Success ELSE Failure

\* A later turn in which the health at the end of the previous turn was
\* below the maximum, the health during the tick was lower still and
\* changed again by the end of the turn: checkForDamage returned Success.
C20_Witness ==
  /\ seen.played /\ seen.prevEnd # NoStats
  /\ seen.prevEnd < MaxHealth
  /\ seen.tickHealth < seen.prevEnd
  /\ seen.endHealth # seen.tickHealth /\ seen.endHealth # seen.prevEnd
  /\ \E n \in DamageChecks : Ticked(n) /\ result[n] = Success

====
